---- MODULE Spec2Model ----
(***************************************************************************)
(* Model of src/app.py, the Streamlit diabetes-risk form.                  *)
(*                                                                         *)
(* The script runs top to bottom on every page load and on every press of  *)
(* Submit: load_model() (cached by st.cache_data), the form, and, when     *)
(* Submit was pressed, one inference-and-render pass.  Widgets inside      *)
(* st.form do not rerun the script: a widget change only updates the       *)
(* browser-side widget state, which is sent along with the next Submit.    *)
(*                                                                         *)
(* Probabilities and thresholds are written in hundredths: 30 is 0.3,      *)
(* 50 is 0.5 and 100 is 1.0.                                               *)
(***************************************************************************)
EXTENDS Integers, Sequences, FiniteSets, TLC

VARIABLES
    disk,     \* the file diabetes_good.pkl as joblib.load would find it
    cache,    \* st.cache_data's entries for load_model: <<>> or <<value>>
    reads,    \* number of times this process has read the file
    widgets,  \* browser-side state of the eleven widgets, by widget key
    touches,  \* number of widget changes made by the user
    page      \* outcome of the latest script run

vars == <<disk, cache, reads, widgets, touches, page>>

-----------------------------------------------------------------------------
(* Bounds of the model *)

\* widget changes the user makes in one behaviour
MaxTouches == 2
\* reads of the file in one behaviour (only a failing load repeats)
MaxReads == 2

-----------------------------------------------------------------------------
(* Configuration: app.py lines 16-26 *)

MODEL_FEATURES ==
    << "HighBP", "HighChol", "BMI", "Stroke", "HeartDiseaseorAttack",
       "PhysActivity", "HvyAlcoholConsump", "GenHlth", "DiffWalk", "Sex", "Age" >>

\* the dict's items in insertion order: (min, max): (level, css_class)
RISK_LEVELS ==
    << [min_val |-> 0,  max_val |-> 30,  level |-> "Low Risk",    css_class |-> "low"],
       [min_val |-> 30, max_val |-> 50,  level |-> "Medium Risk", css_class |-> "medium"],
       [min_val |-> 50, max_val |-> 100, level |-> "High Risk",   css_class |-> "high"] >>

-----------------------------------------------------------------------------
(* The artifact and load_model: app.py lines 6-13 *)

BundleKeys == {"model", "threshold", "features"}

\* A bundle as joblib.load returns it.  The classifier is opaque: it is
\* written as the set of probabilities its predict_proba may return.
Bundle(keys, clf, t, fs) ==
    [exists |-> TRUE, keys |-> keys, model |-> clf, threshold |-> t, features |-> fs]

MissingFile ==
    [exists |-> FALSE, keys |-> {}, model |-> {}, threshold |-> 0, features |-> <<>>]

\* a feature list in another order than MODEL_FEATURES (first two swapped)
OtherFeatures ==
    << "HighChol", "HighBP", "BMI", "Stroke", "HeartDiseaseorAttack",
       "PhysActivity", "HvyAlcoholConsump", "GenHlth", "DiffWalk", "Sex", "Age" >>

\* The files the process may be started on: threshold 0.4 and a classifier
\* answering 0.25, 0.45 or 0.95, with either feature list; the same bundle
\* with one of its keys missing; no file at all.
Artifacts ==
    {Bundle(BundleKeys, {25, 45, 95}, 40, fs) : fs \in {MODEL_FEATURES, OtherFeatures}}
    \cup {Bundle(BundleKeys \ {k}, {25, 45, 95}, 40, MODEL_FEATURES) : k \in BundleKeys}
    \cup {MissingFile}

\* For the classification rule: every threshold that is a multiple of 0.05,
\* each with a classifier that may answer any probability in hundredths.
Thresholds == {5 * i : i \in 0..20}

RiskArtifacts ==
    {Bundle(BundleKeys, 0..100, t, MODEL_FEATURES) : t \in Thresholds}

\* joblib.load("diabetes_good.pkl") followed by the three subscripts of line 11
LoadError(file) ==
    IF ~file.exists THEN "FileNotFoundError"
    ELSE IF ~(BundleKeys \subseteq file.keys) THEN "KeyError"
    ELSE "none"

\* what one joblib.load adds to the reads of the file: an absent file is not read
Read(file) == IF file.exists THEN 1 ELSE 0

LoadedValue(file) ==
    [model |-> file.model, threshold |-> file.threshold, features |-> file.features]

\* load_model without the decorator: every call reads the file
load_model_NoCache ==
    IF LoadError(disk) # "none"
    THEN [error |-> LoadError(disk), value |-> <<>>, cache |-> cache,
          reads |-> reads + Read(disk)]
    ELSE [error |-> "none", value |-> <<LoadedValue(disk)>>,
          cache |-> <<LoadedValue(disk)>>, reads |-> reads + 1]

\* load_model with the failure caught and a stand-in bundle returned
load_model_Swallow ==
    IF cache # <<>>
    THEN [error |-> "none", value |-> cache, cache |-> cache, reads |-> reads]
    ELSE IF LoadError(disk) # "none"
    THEN [error |-> "none",
          value |-> <<[model |-> {50}, threshold |-> 50, features |-> MODEL_FEATURES]>>,
          cache |-> <<>>, reads |-> reads + Read(disk)]
    ELSE [error |-> "none", value |-> <<LoadedValue(disk)>>,
          cache |-> <<LoadedValue(disk)>>, reads |-> reads + 1]

\* load_model() under @st.cache_data: a hit returns the stored value without
\* running the body; a miss runs the body, and stores the value only when the
\* body returns.  The result is [error, value, cache, reads].
load_model ==
    IF cache # <<>>
    THEN [error |-> "none", value |-> cache, cache |-> cache, reads |-> reads]
    ELSE IF LoadError(disk) # "none"
    THEN [error |-> LoadError(disk), value |-> <<>>, cache |-> <<>>,
          reads |-> reads + Read(disk)]
    ELSE [error |-> "none", value |-> <<LoadedValue(disk)>>,
          cache |-> <<LoadedValue(disk)>>, reads |-> reads + 1]

-----------------------------------------------------------------------------
(* The form: app.py lines 106-108 and 118-134 *)

\* st.radio(label, options, key): the browser holds the index of the choice
st_radio(key, options) ==
    [kind |-> "radio", key |-> key, options |-> options,
     min_value |-> 0, max_value |-> Len(options) - 1, value |-> 0]

\* a slider whose upper end is one too far
st_slider_Wide(key, min_value, max_value, value) ==
    [kind |-> "slider", key |-> key, options |-> <<>>,
     min_value |-> min_value, max_value |-> max_value + 1, value |-> value]

\* st.slider(label, min_value, max_value, value): the browser holds the value
st_slider(key, min_value, max_value, value) ==
    [kind |-> "slider", key |-> key, options |-> <<>>,
     min_value |-> min_value, max_value |-> max_value, value |-> value]

\* st.selectbox(label, range(lo, hi)): the browser holds the index of the choice
st_selectbox(key, lo, hi) ==
    [kind |-> "selectbox", key |-> key, options |-> [i \in 1..(hi - lo) |-> lo + i - 1],
     min_value |-> 0, max_value |-> hi - lo - 1, value |-> 0]

\* a widget call whose return value is used as it is
Whole(w) == [widget |-> w, subscript |-> 0]

\* a widget call followed by [1]: the code of the chosen (label, code) pair
Subscript1(w) == [widget |-> w, subscript |-> 2]

\* create_radio offering the gender labels instead of No and Yes
create_radio_Gender(key) ==
    Subscript1(st_radio(key, << <<"Female", 0>>, <<"Male", 1>> >>))

create_radio(key) == Subscript1(st_radio(key, << <<"No", 0>>, <<"Yes", 1>> >>))

Field(name, call) ==
    [name |-> name, widget |-> call.widget, subscript |-> call.subscript]

\* the entries of the form_data dict literal, in source order
diabetes_form ==
    << Field("HighBP",               create_radio("bp")),
       Field("HighChol",             create_radio("chol")),
       Field("BMI",                  Whole(st_slider("BMI", 10, 60, 24))),
       Field("Stroke",               create_radio("stroke")),
       Field("HeartDiseaseorAttack", create_radio("heart")),
       Field("PhysActivity",         create_radio("activity")),
       Field("HvyAlcoholConsump",    create_radio("alcohol")),
       Field("GenHlth",              Whole(st_selectbox("GenHlth", 1, 6))),
       Field("DiffWalk",             create_radio("walk")),
       Field("Sex", Subscript1(st_radio("Gender", << <<"Female", 0>>, <<"Male", 1>> >>))),
       Field("Age",                  Whole(st_slider("Age", 0, 100, 18))) >>

WidgetKeys == {diabetes_form[i].widget.key : i \in DOMAIN diabetes_form}

FieldOfKey(key) ==
    diabetes_form[CHOOSE i \in DOMAIN diabetes_form : diabetes_form[i].widget.key = key]

\* the browser-side states the user is taken to put a widget in: every choice of
\* a radio or selectbox; for a slider its two ends and its initial value
Stops(w) ==
    IF w.kind = "slider" THEN {w.min_value, w.value, w.max_value}
    ELSE w.min_value .. w.max_value

\* the widget states of a fresh session
Defaults == [k \in WidgetKeys |-> FieldOfKey(k).widget.value]

\* what the widget call of a form_data entry evaluates to, given the widget state
Returned(f, st) ==
    LET w == f.widget
        v == IF w.kind = "slider" THEN st[w.key] ELSE w.options[st[w.key] + 1]
    IN  IF f.subscript = 0 THEN v ELSE v[f.subscript]

FieldNames == {diabetes_form[i].name : i \in DOMAIN diabetes_form}

FieldIndex ==
    [name \in FieldNames |-> CHOOSE i \in DOMAIN diabetes_form : diabetes_form[i].name = name]

\* the form_data dict of lines 119-131
form_data(st) ==
    LET returned == [i \in DOMAIN diabetes_form |-> Returned(diabetes_form[i], st)]
    IN  [name \in FieldNames |-> returned[FieldIndex[name]]]

-----------------------------------------------------------------------------
(* Inference and rendering: app.py lines 110-115 and 136-153 *)

RECURSIVE ScanClosed(_, _)
\* the scan with each band open below and closed above
ScanClosed(prob, i) ==
    IF i > Len(RISK_LEVELS) THEN <<"High Risk", "high">>
    ELSE IF RISK_LEVELS[i].min_val < prob /\ prob <= RISK_LEVELS[i].max_val
    THEN <<RISK_LEVELS[i].level, RISK_LEVELS[i].css_class>>
    ELSE ScanClosed(prob, i + 1)

get_risk_level_Closed(prob) == ScanClosed(prob, 1)

RECURSIVE ScanLevels(_, _)
\* the for loop of get_risk_level from item i on, then the fallback
ScanLevels(prob, i) ==
    IF i > Len(RISK_LEVELS) THEN <<"High Risk", "high">>
    ELSE IF RISK_LEVELS[i].min_val <= prob /\ prob < RISK_LEVELS[i].max_val
    THEN <<RISK_LEVELS[i].level, RISK_LEVELS[i].css_class>>
    ELSE ScanLevels(prob, i + 1)

get_risk_level(prob) == ScanLevels(prob, 1)

\* the threshold test with a strict comparison
is_diabetic_Strict(prob, threshold) == prob > threshold

is_diabetic(prob, threshold) == prob >= threshold

\* the submitted branch without the threshold test: the bands label every p
ResultBox_NoTest(prob, threshold) ==
    [box_class |-> ScanLevels(prob, 1)[2],
     result_text |-> <<"Diabetic", ScanLevels(prob, 1)[1]>>]

\* lines 146-153: the one st.markdown of the submitted branch
ResultBox(prob, threshold) ==
    IF is_diabetic(prob, threshold)
    THEN [box_class |-> get_risk_level(prob)[2],
          result_text |-> <<"Diabetic", get_risk_level(prob)[1]>>]
    ELSE [box_class |-> "no", result_text |-> <<"Not Diabetic">>]

\* the row built in the order of another feature list
input_data_Swapped(fd) == [i \in DOMAIN OtherFeatures |-> fd[OtherFeatures[i]]]

\* line 138
input_data(fd) == [i \in DOMAIN MODEL_FEATURES |-> fd[MODEL_FEATURES[i]]]

\* line 139: a one-row frame
input_df(fd) == [columns |-> MODEL_FEATURES, rows |-> <<input_data(fd)>>]

NoFrame == [columns |-> <<>>, rows |-> <<>>]

\* line 142: model.predict_proba(input_df)[0, 1]; the classifier is opaque, so
\* any of its probabilities may come back whatever the frame holds
predict_proba(model, frame) == model

\* lines 118-131: the keys of the widgets the form shows, in order
RenderedForm == [i \in DOMAIN diabetes_form |-> diabetes_form[i].widget.key]

\* the outcome of a script run that load_model's exception ended at line 13
Aborted(submitted, error) ==
    [outcome |-> "aborted", error |-> error, submitted |-> submitted,
     loaded |-> <<>>, form |-> <<>>, submit_button |-> FALSE,
     input_df |-> NoFrame, calls |-> 0, prob |-> <<>>, boxes |-> <<>>]

\* the form-only run with the inference not guarded by `if submitted`
FormOnly_Predicts(loaded) ==
    [outcome |-> "done", error |-> "none", submitted |-> FALSE,
     loaded |-> loaded, form |-> RenderedForm, submit_button |-> TRUE,
     input_df |-> NoFrame, calls |-> 1, prob |-> <<>>, boxes |-> <<>>]

\* the outcome of a script run in which Submit was not pressed: the form alone
FormOnly(loaded) ==
    [outcome |-> "done", error |-> "none", submitted |-> FALSE,
     loaded |-> loaded, form |-> RenderedForm, submit_button |-> TRUE,
     input_df |-> NoFrame, calls |-> 0, prob |-> <<>>, boxes |-> <<>>]

\* the outcome of a script run in which Submit was pressed: lines 136-153
Submitted(loaded, frame, prob) ==
    [outcome |-> "done", error |-> "none", submitted |-> TRUE,
     loaded |-> loaded, form |-> RenderedForm, submit_button |-> TRUE,
     input_df |-> frame, calls |-> 1, prob |-> <<prob>>,
     boxes |-> <<ResultBox(prob, loaded[1].threshold)>>]

\* one run of the script, top to bottom, on the widget states st
ScriptRun(submitted, st) ==
    LET got == load_model
        frame == input_df(form_data(st))
    IN  /\ cache' = got.cache
        /\ reads' = got.reads
        /\ IF got.error # "none" THEN page' = Aborted(submitted, got.error)
           ELSE IF ~submitted THEN page' = FormOnly(got.value)
           ELSE \E prob \in predict_proba(got.value[1].model, frame) :
                   page' = Submitted(got.value, frame, prob)

-----------------------------------------------------------------------------
(* The state machine *)

NoPage ==
    [outcome |-> "none", error |-> "none", submitted |-> FALSE,
     loaded |-> <<>>, form |-> <<>>, submit_button |-> FALSE,
     input_df |-> NoFrame, calls |-> 0, prob |-> <<>>, boxes |-> <<>>]

Init ==
    /\ disk \in Artifacts
    /\ cache = <<>>
    /\ reads = 0
    /\ widgets = Defaults
    /\ touches = 0
    /\ page = NoPage

\* the browser opens or reloads the page: a fresh session, Submit not pressed
PageLoad ==
    /\ cache = <<>> => reads < MaxReads
    /\ ScriptRun(FALSE, Defaults)
    /\ widgets' = Defaults
    /\ UNCHANGED <<disk, touches>>

\* the user changes one widget of the displayed form; the script does not run
Touch ==
    /\ page.form # <<>>
    /\ touches < MaxTouches
    /\ \E k \in WidgetKeys : \E s \in Stops(FieldOfKey(k).widget) :
          /\ s # widgets[k]
          /\ widgets' = [widgets EXCEPT ![k] = s]
    /\ touches' = touches + 1
    /\ UNCHANGED <<disk, cache, reads, page>>

\* the user presses Submit on the displayed form: the script runs with the
\* widget states of the browser
Submit ==
    /\ page.submit_button
    /\ cache = <<>> => reads < MaxReads
    /\ ScriptRun(TRUE, widgets)
    /\ UNCHANGED <<disk, widgets, touches>>

Next == PageLoad \/ Touch \/ Submit

Spec == Init /\ [][Next]_vars

\* The classification rule on its own: the form is submitted as it loads, over
\* every threshold of Thresholds and every probability in hundredths.
InitRisk ==
    /\ disk \in RiskArtifacts
    /\ cache = <<>>
    /\ reads = 0
    /\ widgets = Defaults
    /\ touches = 0
    /\ page = NoPage

NextRisk == PageLoad \/ Submit

SpecRisk == InitRisk /\ [][NextRisk]_vars

-----------------------------------------------------------------------------
(* Properties *)

\* the latest run was a submission that ran to its end
Answered == page.submitted /\ page.outcome = "done"

\* of the latest submission: the probability, the threshold loaded for that
\* run, the text of the first status line and the risk label in it, if any
P == page.prob[1]
T == page.loaded[1].threshold
Text == page.boxes[1].result_text
Label == IF Len(Text) = 2 THEN Text[2] ELSE "none"

C2_Bands ==
    (Answered /\ P >= T) =>
        /\ P < 30 => Label = "Low Risk"
        /\ (30 <= P /\ P < 50) => Label = "Medium Risk"
        /\ (50 <= P /\ P <= 100) => Label = "High Risk"

C2_Witness == Answered /\ P >= T /\ P = 30 /\ Label = "Medium Risk"

\* the order the claim C3 lists
ListedOrder ==
    << "HighBP", "HighChol", "BMI", "Stroke", "HeartDiseaseorAttack",
       "PhysActivity", "HvyAlcoholConsump", "GenHlth", "DiffWalk", "Sex", "Age" >>

\* the value the widget of the form entry called name returns on the states st
WidgetValue(name, st) == Returned(diabetes_form[FieldIndex[name]], st)

\* C3: whatever the widget changes before it, a Submit passes the classifier
\* a one-row record whose columns are in the listed order and whose every
\* position holds the current value of the widget of that name.
C3_FixedOrder ==
    [][Submit =>
        /\ page'.input_df.columns = ListedOrder
        /\ Len(page'.input_df.rows) = 1
        /\ page'.input_df.rows[1] =
              [i \in DOMAIN ListedOrder |-> WidgetValue(ListedOrder[i], widgets)]]_vars

C3_Witness ==
    /\ Answered
    /\ touches = 2
    /\ page.input_df.rows[1][1] = 1
    /\ page.input_df.rows[1][2] = 0
    /\ page.input_df.rows[1][11] = 100

\* C4: for every artifact that loads, the field order of the record built on
\* submission is the feature list that artifact carries.
C4_OrderOfArtifact ==
    Answered => page.input_df.columns = page.loaded[1].features

BinaryFields ==
    {"HighBP", "HighChol", "Stroke", "HeartDiseaseorAttack", "PhysActivity",
     "HvyAlcoholConsump", "DiffWalk", "Sex"}

\* C5: in every record that reaches the classifier each binary field is 0 or
\* 1, GenHlth is in 1..5, BMI in 10..60 and Age in 0..100.
C5_InRange ==
    \A r \in DOMAIN page.input_df.rows :
        \A i \in DOMAIN page.input_df.columns :
            LET name == page.input_df.columns[i]
                v == page.input_df.rows[r][i]
            IN  /\ name \in BinaryFields => v \in {0, 1}
                /\ name = "GenHlth" => v \in 1..5
                /\ name = "BMI" => v \in 10..60
                /\ name = "Age" => v \in 0..100

C5_Witness ==
    /\ Answered
    /\ page.input_df.rows[1][3] = 60
    /\ page.input_df.rows[1][8] = 5

C7_ReadAtMostOnce == reads <= 1

\* C7: once a load has succeeded the file is not read again; every later run
\* gets the cached model, threshold and feature list, and no run changes them.
C7_CachedAfterSuccess ==
    [][cache # <<>> =>
        /\ reads' = reads
        /\ cache' = cache
        /\ page'.outcome = "done"
        /\ page'.loaded = cache]_vars

C7_Witness == cache # <<>> /\ reads = 1 /\ Answered /\ touches = 1

\* the positions of the rendered form that hold a No/Yes radio
YesNoInputs ==
    {i \in DOMAIN page.form :
        /\ FieldOfKey(page.form[i]).widget.kind = "radio"
        /\ FieldOfKey(page.form[i]).widget.options = << <<"No", 0>>, <<"Yes", 1>> >>}

\* C8 as stated: six of the inputs are binary yes/no choices.
C8_SixYesNo == page.form # <<>> => Cardinality(YesNoInputs) = 6

\* C8: the form has exactly eleven inputs: seven binary yes/no choices, a
\* slider for BMI, a selector 1-5, a slider for age and a binary gender
\* choice, and a submit button.
C8_ElevenInputs ==
    page.form # <<>> =>
        /\ Len(page.form) = 11
        /\ Cardinality({page.form[i] : i \in DOMAIN page.form}) = 11
        /\ Cardinality(YesNoInputs) = 7
        /\ \A i \in DOMAIN page.form \ YesNoInputs :
              LET f == FieldOfKey(page.form[i]) IN
              \/ f.name = "BMI" /\ f.widget.kind = "slider"
              \/ f.name = "Age" /\ f.widget.kind = "slider"
              \/ /\ f.name = "GenHlth"
                 /\ f.widget.kind = "selectbox"
                 /\ f.widget.options = <<1, 2, 3, 4, 5>>
              \/ /\ f.name = "Sex"
                 /\ f.widget.kind = "radio"
                 /\ Len(f.widget.options) = 2
        /\ page.submit_button

C8_Witness == page.form # <<>> /\ page.submit_button /\ ~page.submitted

\* C9: when loading the artifact fails the run aborts at startup: no form is
\* rendered, the classifier is not called and no status line is produced.
C9_LoadFailureAborts ==
    (LoadError(disk) # "none" /\ page.outcome # "none") =>
        /\ page.outcome = "aborted"
        /\ page.error = LoadError(disk)
        /\ page.form = <<>>
        /\ ~page.submit_button
        /\ page.calls = 0
        /\ page.boxes = <<>>
        /\ cache = <<>>

C9_Witness == page.outcome = "aborted" /\ page.error = "KeyError" /\ reads = 2

\* C10: a band below the threshold is unreachable: with t >= 0.3 no
\* submission is labelled "Low Risk", with t >= 0.5 none is labelled "Low
\* Risk" or "Medium Risk", and "Low Risk" is shown only when t <= p < 0.3.
C10_BandsBelowThreshold ==
    Answered =>
        /\ T >= 30 => Label # "Low Risk"
        /\ T >= 50 => Label \notin {"Low Risk", "Medium Risk"}
        /\ Label = "Low Risk" => (T <= P /\ P < 30)

C10_Witness == Answered /\ T >= 50 /\ P < 30 /\ Label = "none"

====
